---- MODULE Spec2Model ----
(***************************************************************************)
(* Model of src/main.rs: a GBXRemote (XML-RPC over TCP) client.  One       *)
(* thread of control; Client::call blocks in await_messages, which may run *)
(* handle_callback, which may issue nested calls.  The call stack is       *)
(* explicit; the peer's frames are chosen nondeterministically at each     *)
(* read.                                                                   *)
(*                                                                         *)
(* A u32 is a pair <<hi, lo>> of 16-bit words (TLC integers are 32-bit     *)
(* signed, and every handle is >= 0x80000000).                             *)
(***************************************************************************)
EXTENDS Integers, Sequences, FiniteSets, TLC

VARIABLES
    handle,     \* Client.handle: the allocator's counter (u32)
    msgs,       \* Client.msgs: HashMap<u32, Option<String>>
    stack,      \* the call stack, innermost activation last
    status,     \* "running", "panicked" (an unwrap/assert failed) or "done"
    written,    \* history: request frames written to the stream, in order
    returns,    \* history: the values Client::call returned, in order
    issued,     \* history: <<before, after>> of each new_handle
    lastFrame,  \* history: the frame read last and where it went
    nread,      \* history: number of frames read
    hello       \* history: the greeting Client::new read ("" before)

vars == <<handle, msgs, stack, status, written, returns, issued, lastFrame, nread, hello>>

\* ---------------------------------------------------------------- bounds
MaxFrames == 6
MaxAlloc == 30

\* ---------------------------------------------------------------- u32
Word == 65536

U32(hi, lo) == <<hi, lo>>

\* wrapping u32 increment
Inc32(x) == IF x[2] = Word - 1 THEN <<(x[1] + 1) % Word, 0>> ELSE <<x[1], x[2] + 1>>

Geq32(x, y) == x[1] > y[1] \/ (x[1] = y[1] /\ x[2] >= y[2])

\* ---------------------------------------------------------------- constants
\* handle: 0x80000000 in Client::new
InitHandle == U32(32768, 0)
\* the reset value 0x80000000 in new_handle
HandleStart == U32(32768, 0)
\* the limit 0xffffff00 in new_handle
HandleLimit == U32(65535, 65280)
\* the expected greeting
Banner == "GBXRemote 2"

\* ---------------------------------------------------------------- payloads
\* What dxr can decode a payload as: a fault response, a method response
\* holding a boolean or a string, or a method call (a notification).
Kinds == {"fault", "true", "false", "string", "BeginMap", "OtherCall"}

\* The absent payload: Option::None in msgs, and "no message" in a frame.
None == [id |-> U32(0, 0), kind |-> "none", seq |-> 0]

\* A payload read from the stream remembers the frame that carried it.
Payload(id, kind, seq) == [id |-> id, kind |-> kind, seq |-> seq]

IsSome(p) == p # None

\* ---------------------------------------------------------------- new_handle
\* mutant of NewHandle: the limit is compared with > instead of >=
NewHandleOffByOne(h) ==
    LET n == Inc32(h)
    IN  IF Geq32(n, HandleLimit) /\ n # HandleLimit THEN HandleStart ELSE n

\* lines 59-63
NewHandle(h) ==
    LET n == Inc32(h)
    IN  IF Geq32(n, HandleLimit) THEN HandleStart ELSE n

\* ---------------------------------------------------------------- HashMap
\* mutant of Insert: nothing is inserted
InsertNothing(m, k, v) == m

Insert(m, k, v) == [x \in DOMAIN m \cup {k} |-> IF x = k THEN v ELSE m[x]]

\* mutant of Remove: the entry stays in the table
RemoveNothing(m, k) == m

\* mutant of Remove: the whole table is dropped
RemoveAll(m, k) == [x \in {} |-> m[x]]

Remove(m, k) == [x \in DOMAIN m \ {k} |-> m[x]]

EmptyMap == [x \in {} |-> None]

\* ---------------------------------------------------------------- stack
Frame(fn, pc, site, h, msg) ==
    [fn |-> fn, pc |-> pc, site |-> site, handle |-> h, msg |-> msg]

NoHandle == U32(0, 0)

Top == stack[Len(stack)]

Pop(s) == SubSeq(s, 1, Len(s) - 1)

SetTop(s, f) == [s EXCEPT ![Len(s)] = f]

Running == status = "running" /\ stack # <<>>

Panic ==
    /\ status' = "panicked"
    /\ UNCHANGED <<handle, msgs, stack, written, returns, issued, lastFrame, nread>>

\* ---------------------------------------------------------------- Init
\* main has called Client::new, which has built the struct and is about to
\* read the greeting.
Init ==
    /\ handle = InitHandle
    /\ msgs = EmptyMap
    /\ stack = << Frame("main", "ret", "new", NoHandle, None),
                  Frame("new", "hello", "hello", NoHandle, None) >>
    /\ status = "running"
    /\ written = <<>>
    /\ returns = <<>>
    /\ issued = <<>>
    /\ lastFrame = [id |-> NoHandle, msg |-> None, to |-> "none"]
    /\ nread = 0
    /\ hello = ""

\* ---------------------------------------------------------------- the peer
Greetings == {"GBXRemote 2", "GBXRemote 1"}

\* A correlation id the peer may put on a frame besides the registered ones:
\* an id of its own low range, which no call ever waits on.
StrayIds == {U32(0, 1)}

FrameIds == DOMAIN msgs \cup StrayIds

\* ---------------------------------------------------------------- Client::new
\* lines 31-33: read the greeting (length + bytes, no id) and assert it
ReadGreeting ==
    /\ Running
    /\ Top.fn = "new" /\ Top.pc = "hello"
    /\ \E g \in Greetings :
          /\ hello' = g
          /\ IF g = Banner
             THEN /\ stack' = SetTop(stack, Frame("new", "call", "SetApiVersion", NoHandle, None))
                  /\ UNCHANGED <<handle, msgs, status, written, returns, issued, lastFrame, nread>>
             ELSE Panic

\* read_u32 / read_msg / write_u32: read_exact(..).unwrap() and
\* write_all(..).unwrap() fail when the stream is closed, at the reads of the
\* greeting and of a frame and at the writes of a request
\* mutant of TransportFail: a failed read is ignored and the program goes on
TransportFailIgnored ==
    /\ Running
    /\ \/ Top.fn = "new" /\ Top.pc = "hello"
       \/ Top.fn = "await_messages"
    /\ lastFrame.to # "failed"
    /\ lastFrame' = [id |-> NoHandle, msg |-> None, to |-> "failed"]
    /\ UNCHANGED <<handle, msgs, stack, status, written, returns, issued, nread, hello>>

TransportFail ==
    /\ Running
    /\ \/ /\ \/ Top.fn = "new" /\ Top.pc = "hello"
             \/ Top.fn = "await_messages"
          /\ lastFrame' = [id |-> NoHandle, msg |-> None, to |-> "failed"]
       \/ /\ Top.fn \in {"new", "main", "download_map"} /\ Top.pc = "call"
          /\ lastFrame' = lastFrame
    /\ status' = "panicked"
    /\ UNCHANGED <<handle, msgs, stack, written, returns, issued, nread, hello>>

\* ---------------------------------------------------------------- Client::call
CallSites == {"new", "main", "download_map"}

\* lines 76-81: serialize, write length, allocate the handle, write it and
\* the payload; the activation then enters the loop of line 83
CallBegin ==
    /\ Running
    /\ Top.fn \in CallSites /\ Top.pc = "call"
    /\ LET h == NewHandle(handle)
       IN  /\ handle' = h
           /\ issued' = Append(issued, <<handle, h>>)
           /\ written' = Append(written, [handle |-> h, method |-> Top.site])
           /\ stack' = Append(SetTop(stack, [Top EXCEPT !.pc = "ret"]),
                              Frame("call", "loop", Top.site, h, None))
    /\ UNCHANGED <<msgs, status, returns, lastFrame, nread, hello>>

\* lines 84-85: register the handle and enter await_messages
CallLoop ==
    /\ Running
    /\ Top.fn = "call" /\ Top.pc = "loop"
    /\ msgs' = Insert(msgs, Top.handle, None)
    /\ stack' = Append(SetTop(stack, [Top EXCEPT !.pc = "check"]),
                       Frame("await_messages", "read", "", NoHandle, None))
    /\ UNCHANGED <<handle, status, written, returns, issued, lastFrame, nread, hello>>

\* mutant of CallResult: the fault decode is missing, so a fault fails the
\* decode as a method response
CallResultNoFault(method, p) ==
    IF method = "GetMapsDirectory"
    THEN IF p.kind = "string" THEN "Ok" ELSE "panic"
    ELSE IF p.kind \in {"true", "false"} THEN "Ok" ELSE "panic"

\* lines 92-97: a fault response is Err; anything that is no method response
\* of the type R the call site asks for fails an unwrap
CallResult(method, p) ==
    IF p.kind = "fault" THEN "Err"
    ELSE IF method = "GetMapsDirectory"
         THEN IF p.kind = "string" THEN "Ok" ELSE "panic"
         ELSE IF p.kind \in {"true", "false"} THEN "Ok" ELSE "panic"

\* line 87: self.msgs.remove(&handle).unwrap()
Taken(m, h) == IF h \in DOMAIN m THEN m[h] ELSE None

\* lines 87-97: take the entry; loop again if it is still None, else decode
\* the payload and return
CallCheck ==
    /\ Running
    /\ Top.fn = "call" /\ Top.pc = "check"
    /\ IF Top.handle \notin DOMAIN msgs
       THEN Panic
       ELSE LET p == Taken(msgs, Top.handle)
                r == CallResult(Top.site, p)
            IN  /\ msgs' = Remove(msgs, Top.handle)
                /\ IF ~IsSome(p)
                   THEN /\ stack' = SetTop(stack, [Top EXCEPT !.pc = "loop"])
                        /\ UNCHANGED <<status, returns>>
                   ELSE IF r = "panic"
                   THEN /\ status' = "panicked"
                        /\ UNCHANGED <<stack, returns>>
                   ELSE /\ stack' = Pop(stack)
                        /\ returns' = Append(returns,
                              [handle |-> Top.handle, method |-> Top.site,
                               payload |-> p, result |-> r])
                        /\ UNCHANGED status
                /\ UNCHANGED <<handle, written, issued, lastFrame, nread>>
    /\ UNCHANGED hello

\* ---------------------------------------------------------------- await_messages
\* mutant of IsExpected: every frame is taken for a response
IsExpectedAlways(m, id) == TRUE

\* line 108: self.msgs.remove(&handle).is_some()
IsExpected(m, id) == id \in DOMAIN m

\* lines 108-109: the entry is removed and inserted again as Some(msg)
Deliver(m, id, p) == Insert(Remove(m, id), id, p)

\* mutant of LoopAgain: await_messages returns once the handler has returned
ReturnAfterCallback(s) == Pop(s)

\* lines 102 and 113-114: when handle_callback has returned, the activation of
\* await_messages stays and goes round its loop
LoopAgain(s) == s

\* line 110: return to the caller; main ends after its await_messages
ReturnFromAwait(s) == Pop(s)

StatusAfterAwait(s) == IF Pop(s)[Len(s) - 1].fn = "main" THEN "done" ELSE "running"

\* lines 103-113: read one frame into the locals handle and msg; store it if
\* its id is a key of msgs and return, else run handle_callback on it.  When
\* handle_callback has returned the activation is at the end of the loop body
\* (pc "callback") and the next step is this read again.
AwaitRead ==
    /\ Running
    /\ Top.fn = "await_messages"
    /\ nread < MaxFrames
    /\ \E id \in FrameIds, kind \in Kinds :
          LET p == Payload(id, kind, nread + 1)
          IN  IF IsExpected(msgs, id)
              THEN /\ msgs' = Deliver(msgs, id, p)
                   /\ stack' = ReturnFromAwait(stack)
                   /\ status' = StatusAfterAwait(stack)
                   /\ lastFrame' = [id |-> id, msg |-> p, to |-> "stored"]
              ELSE /\ stack' = Append(SetTop(stack, Frame("await_messages", "callback", "", id, p)),
                                      Frame("handle_callback", "decode", "", id, p))
                   /\ lastFrame' = [id |-> id, msg |-> p, to |-> "callback"]
                   /\ UNCHANGED <<msgs, status>>
    /\ nread' = nread + 1
    /\ UNCHANGED <<handle, written, returns, issued, hello>>

\* ---------------------------------------------------------------- handle_callback
\* mutant of HandleCallback: the method name is not compared, every method
\* call starts a download
HandleCallbackAnyMethod ==
    /\ Running
    /\ Top.fn = "handle_callback" /\ Top.pc = "decode"
    /\ IF Top.msg.kind \notin {"BeginMap", "OtherCall"}
       THEN Panic
       ELSE \E found \in BOOLEAN :
               IF ~found
               THEN Panic
               ELSE /\ stack' = Append(SetTop(stack, [Top EXCEPT !.pc = "download"]),
                                       Frame("download_map", "call", "GetMapsDirectory",
                                             NoHandle, None))
                    /\ UNCHANGED <<handle, msgs, status, written, returns, issued,
                                   lastFrame, nread>>
    /\ UNCHANGED hello

\* lines 118-123: decode the method call; on ManiaPlanet.BeginMap pick a
\* random map (an HTTP request that can fail) and enter download_map
HandleCallback ==
    /\ Running
    /\ Top.fn = "handle_callback" /\ Top.pc = "decode"
    /\ IF Top.msg.kind \notin {"BeginMap", "OtherCall"}
       THEN Panic
       ELSE IF Top.msg.kind = "OtherCall"
       THEN /\ stack' = LoopAgain(Pop(stack))
            /\ UNCHANGED <<handle, msgs, status, written, returns, issued, lastFrame, nread>>
       ELSE \E found \in BOOLEAN :
               IF ~found
               THEN Panic
               ELSE /\ stack' = Append(SetTop(stack, [Top EXCEPT !.pc = "download"]),
                                       Frame("download_map", "call", "GetMapsDirectory",
                                             NoHandle, None))
                    /\ UNCHANGED <<handle, msgs, status, written, returns, issued,
                                   lastFrame, nread>>
    /\ UNCHANGED hello

\* ---------------------------------------------------------------- download_map
LastReturn == returns[Len(returns)]

\* lines 150-160: unwrap the directory, create the file and download into
\* it (or find it already there), then go on to InsertMap
DownloadGotDir ==
    /\ Running
    /\ Top.fn = "download_map" /\ Top.pc = "ret" /\ Top.site = "GetMapsDirectory"
    /\ IF LastReturn.result # "Ok"
       THEN Panic
       ELSE \E file \in {"created", "exists", "failed"} :
               IF file = "failed"
               THEN Panic
               ELSE /\ stack' = SetTop(stack, Frame("download_map", "call", "InsertMap",
                                                    NoHandle, None))
                    /\ UNCHANGED <<handle, msgs, status, written, returns, issued,
                                   lastFrame, nread>>
    /\ UNCHANGED hello

\* mutant of DownloadInserted: the result of InsertMap is unwrapped
DownloadInsertedUnwrap ==
    /\ Running
    /\ Top.fn = "download_map" /\ Top.pc = "ret" /\ Top.site = "InsertMap"
    /\ IF returns[Len(returns)].result # "Ok"
       THEN Panic
       ELSE /\ stack' = LoopAgain(Pop(Pop(stack)))
            /\ UNCHANGED <<handle, msgs, status, written, returns, issued, lastFrame, nread>>
    /\ UNCHANGED hello

\* lines 163-169 and 124-127: an Err of InsertMap is printed; download_map
\* and handle_callback return to the loop of await_messages
DownloadInserted ==
    /\ Running
    /\ Top.fn = "download_map" /\ Top.pc = "ret" /\ Top.site = "InsertMap"
    /\ stack' = LoopAgain(Pop(Pop(stack)))
    /\ UNCHANGED <<handle, msgs, status, written, returns, issued, lastFrame, nread>>
    /\ UNCHANGED hello

\* ---------------------------------------------------------------- new, main
\* mutant of NextSite: EnableCallbacks is issued before Authenticate
NextSiteSwapped(site) ==
    IF site = "SetApiVersion" THEN "EnableCallbacks"
    ELSE IF site = "EnableCallbacks" THEN "Authenticate" ELSE "EnableCallbacks"

\* the order of the calls of lines 35, 37-39 and 42
NextSite(site) ==
    IF site = "SetApiVersion" THEN "Authenticate" ELSE "EnableCallbacks"

\* mutant of NewRet: the result is unwrapped but not asserted to be true
NewRetNoAssert ==
    /\ Running
    /\ Top.fn = "new" /\ Top.pc = "ret"
    /\ IF returns[Len(returns)].result # "Ok"
       THEN Panic
       ELSE /\ stack' = IF Top.site = "EnableCallbacks"
                        THEN << Frame("main", "call", "NextMap", NoHandle, None) >>
                        ELSE SetTop(stack, Frame("new", "call", NextSite(Top.site),
                                                 NoHandle, None))
            /\ UNCHANGED <<handle, msgs, status, written, returns, issued, lastFrame, nread>>
    /\ UNCHANGED hello

\* lines 35-45: unwrap the result and assert it is true; after the third
\* call return the Client to main, which goes on to NextMap
NewRet ==
    /\ Running
    /\ Top.fn = "new" /\ Top.pc = "ret"
    /\ IF LastReturn.result # "Ok" \/ LastReturn.payload.kind # "true"
       THEN Panic
       ELSE /\ stack' = IF Top.site = "EnableCallbacks"
                        THEN << Frame("main", "call", "NextMap", NoHandle, None) >>
                        ELSE SetTop(stack, Frame("new", "call", NextSite(Top.site),
                                                 NoHandle, None))
            /\ UNCHANGED <<handle, msgs, status, written, returns, issued, lastFrame, nread>>
    /\ UNCHANGED hello

\* lines 183-184: unwrap the result of NextMap and enter await_messages
MainRet ==
    /\ Running
    /\ Top.fn = "main" /\ Top.pc = "ret" /\ Top.site = "NextMap"
    /\ IF LastReturn.result # "Ok"
       THEN Panic
       ELSE /\ stack' = << Frame("main", "ret", "await_messages", NoHandle, None),
                           Frame("await_messages", "read", "", NoHandle, None) >>
            /\ UNCHANGED <<handle, msgs, status, written, returns, issued, lastFrame, nread>>
    /\ UNCHANGED hello

Next ==
    \/ ReadGreeting
    \/ TransportFail
    \/ CallBegin
    \/ CallLoop
    \/ CallCheck
    \/ AwaitRead
    \/ HandleCallback
    \/ DownloadGotDir
    \/ DownloadInserted
    \/ NewRet
    \/ MainRet

Spec == Init /\ [][Next]_vars

\* ---------------------------------------------------------------- after a wrap
\* A later point of the same run, with the histories started afresh: the
\* NextMap of main (handle 0x80000004, the fourth allocated) is still waiting
\* in its pump while ManiaPlanet.BeginMap notifications have used up the
\* handles 0x80000005 .. 0xfffffeff two at a time; the counter has wrapped
\* at line 61 and the round just finished took 0x80000001 and 0x80000002.
OuterHandle == U32(32768, 4)

InitOuterWrap ==
    /\ handle = U32(32768, 2)
    /\ msgs = Insert(EmptyMap, OuterHandle, None)
    /\ stack = << Frame("main", "ret", "NextMap", NoHandle, None),
                  Frame("call", "check", "NextMap", OuterHandle, None),
                  Frame("await_messages", "callback", "", U32(0, 1),
                        Payload(U32(0, 1), "BeginMap", 0)) >>
    /\ status = "running"
    /\ written = << [handle |-> OuterHandle, method |-> "NextMap"] >>
    /\ returns = <<>>
    /\ issued = <<>>
    /\ lastFrame = [id |-> NoHandle, msg |-> None, to |-> "none"]
    /\ nread = 0
    /\ hello = Banner

SpecWrap == (Init \/ InitOuterWrap) /\ [][Next]_vars

\* ---------------------------------------------------------------- main's pump
\* A later point of the same run, with the histories started afresh: the
\* handshake and NextMap have returned true (handles 0x80000001 ..
\* 0x80000004) and main has just entered await_messages at line 184.
InitMainAwait ==
    /\ handle = U32(32768, 4)
    /\ msgs = EmptyMap
    /\ stack = << Frame("main", "ret", "await_messages", NoHandle, None),
                  Frame("await_messages", "read", "", NoHandle, None) >>
    /\ status = "running"
    /\ written = <<>>
    /\ returns = <<>>
    /\ issued = <<>>
    /\ lastFrame = [id |-> NoHandle, msg |-> None, to |-> "none"]
    /\ nread = 0
    /\ hello = Banner

SpecMain == (Init \/ InitMainAwait) /\ [][Next]_vars

\* ---------------------------------------------------------------- new_handle alone
\* Counter values from which the allocator is run: the constructor's, one
\* before a carry of the low word, and the last ones before the limit.
AllocStarts ==
    {InitHandle, U32(32768, 65534), U32(65535, 65277), U32(65535, 65278), U32(65535, 65279)}

InitAlloc ==
    /\ handle \in AllocStarts
    /\ msgs = EmptyMap
    /\ stack = <<>>
    /\ status = "running"
    /\ written = <<>>
    /\ returns = <<>>
    /\ issued = <<>>
    /\ lastFrame = [id |-> NoHandle, msg |-> None, to |-> "none"]
    /\ nread = 0
    /\ hello = ""

\* lines 58-64 on their own
AllocStep ==
    /\ Len(issued) < MaxAlloc
    /\ handle' = NewHandle(handle)
    /\ issued' = Append(issued, <<handle, handle'>>)
    /\ UNCHANGED <<msgs, stack, status, written, returns, lastFrame, nread, hello>>

NextAlloc == AllocStep

SpecAlloc == InitAlloc /\ [][NextAlloc]_vars

\* ================================================================ claims
\* the call activations on the stack whose handle is registered
Waiting(i) == stack[i].fn = "call" /\ stack[i].handle \in DOMAIN msgs

JustReturned == returns' # returns

\* C1: a call returns only the payload of a frame that carried the handle
\* the call allocated (C1_ReturnedOwnFrame), and the call that returns is the
\* one whose handle the frame read last carried: with A and B both
\* registered, a frame carrying one of them never makes the call waiting on
\* the other return (C1_ReturnStep).
C1_ReturnedOwnFrame ==
    \A i \in 1..Len(returns) :
        /\ returns[i].payload.id = returns[i].handle
        /\ \E k \in 1..Len(written) :
              /\ written[k].handle = returns[i].handle
              /\ written[k].method = returns[i].method

C1_ReturnStep ==
    JustReturned =>
        /\ lastFrame.to = "stored"
        /\ lastFrame.id = Top.handle

\* C1: every returned payload came in a frame with the call's own handle,
\* and a call returns only in answer to a frame carrying its handle.
C1_Correlation == [](C1_ReturnedOwnFrame) /\ [][C1_ReturnStep]_vars

\* C2: once the frame carrying a call's handle is stored, the call returns
\* without a further frame having to arrive: the program never waits for a
\* frame in the pump of a call whose entry already holds its payload.
C2_ReturnsOnceStored ==
    \A i \in 1..Len(stack) :
        ( /\ status = "running"
          /\ stack[i].fn = "call"
          /\ i = Len(stack) - 1
          /\ Top.fn = "await_messages" )
        => ~(Waiting(i) /\ IsSome(msgs[stack[i].handle]))

\* the innermost activation of fn below position i
CallerOfPump(i) == stack[i - 2]

\* C3: while handle_callback runs under the pump of an outer call, the outer
\* call's entry stays registered; GetMapsDirectory and InsertMap return the
\* payload of the frame that carried their own handle; when the handler has
\* finished the outer call's pump is the innermost activation again, and a
\* frame carrying the outer handle read there makes that pump return with
\* the frame stored for the outer call.
C3_OuterRegistered ==
    \A i \in 3..Len(stack) :
        (status = "running" /\ stack[i].fn = "handle_callback"
            /\ CallerOfPump(i).fn = "call")
        => /\ stack[i - 1].fn = "await_messages"
           /\ CallerOfPump(i).pc = "check"
           /\ CallerOfPump(i).handle \in DOMAIN msgs

C3_NestedOwnFrame ==
    \A i \in 1..Len(returns) :
        returns[i].method \in {"GetMapsDirectory", "InsertMap"}
        => /\ returns[i].payload.id = returns[i].handle
           /\ \A j \in 1..Len(stack) :
                 stack[j].fn = "call" => stack[j].handle # returns[i].handle

C3_HandlerStep ==
    /\ (Top.fn = "download_map" /\ Top.site = "InsertMap" /\ Top.pc = "ret"
           /\ stack' # stack)
       => /\ stack' = SubSeq(stack, 1, Len(stack) - 2)
          /\ stack'[Len(stack')].fn = "await_messages"
          /\ status' = "running"
          /\ msgs' = msgs
    /\ (Top.fn = "await_messages" /\ Len(stack) >= 2 /\ nread' = nread + 1
           /\ stack[Len(stack) - 1].fn = "call"
           /\ lastFrame'.id = stack[Len(stack) - 1].handle)
       => /\ stack' = Pop(stack)
          /\ msgs'[stack[Len(stack) - 1].handle] = lastFrame'.msg
          /\ DOMAIN msgs' = DOMAIN msgs

\* C3: the reentrant BeginMap scenario: outer entry kept, nested calls
\* answered by their own frames, control back in the outer pump afterwards.
C3_Reentrant ==
    [](C3_OuterRegistered /\ C3_NestedOwnFrame) /\ [][C3_HandlerStep]_vars

\* C3 witness: BeginMap arrived while SetApiVersion was waiting, both nested
\* calls returned, and then the outer call returned on its own frame.
C3_Witness ==
    /\ Len(returns) = 3
    /\ returns[1].method = "GetMapsDirectory"
    /\ returns[2].method = "InsertMap"
    /\ returns[3].method = "SetApiVersion"
    /\ returns[3].payload.seq = 4

\* C4: a frame whose id is the key of an entry that already holds a payload
\* does not replace that payload.
C4_StoredStep ==
    \A h \in DOMAIN msgs :
        (IsSome(msgs[h]) /\ h \in DOMAIN msgs') => msgs'[h] = msgs[h]

\* C4: in no step is a stored payload replaced.
C4_NeverOverwritten == [][C4_StoredStep]_vars

\* C5: a frame whose id is no key of msgs goes to handle_callback, is not
\* stored and makes no call return; a frame whose id is a key is stored
\* under that key and does not go to handle_callback.
ReadStep == nread' = nread + 1

C5_ReadStep ==
    ReadStep =>
        /\ lastFrame'.id \notin DOMAIN msgs =>
              /\ lastFrame'.to = "callback"
              /\ msgs' = msgs
              /\ returns' = returns
              /\ stack'[Len(stack')] =
                    Frame("handle_callback", "decode", "", lastFrame'.id, lastFrame'.msg)
              /\ Len(stack') = Len(stack) + 1
        /\ lastFrame'.id \in DOMAIN msgs =>
              /\ lastFrame'.to = "stored"
              /\ msgs' = [msgs EXCEPT ![lastFrame'.id] = lastFrame'.msg]
              /\ stack' = Pop(stack)

\* a payload handed to handle_callback is never in the table nor returned
C5_NotMistaken ==
    \A i \in 1..Len(stack) :
        stack[i].fn = "handle_callback" =>
            /\ \A h \in DOMAIN msgs : msgs[h] # stack[i].msg
            /\ \A j \in 1..Len(returns) : returns[j].payload # stack[i].msg
            /\ \A h \in DOMAIN msgs : IsSome(msgs[h]) => msgs[h].id = h

\* C5: unmatched frames go to handle_callback only, matched frames to the
\* table only.
C5_Fallthrough ==
    /\ [](C5_NotMistaken)
    /\ [][C5_ReadStep]_vars
    /\ [][JustReturned => lastFrame.to = "stored"]_vars

\* C5 witness: with a handle registered, a frame with an id that is no key
\* has been handed to handle_callback, after a frame with a registered id
\* was stored.
C5_Witness ==
    /\ Top.fn = "handle_callback"
    /\ \E h \in DOMAIN msgs : IsSome(msgs[h]) /\ msgs[h].seq < Top.msg.seq
    /\ lastFrame.to = "callback"
    /\ lastFrame.msg = Top.msg
    /\ DOMAIN msgs # {}
    /\ Top.handle \notin DOMAIN msgs

\* C6 (as claimed): one invocation of await_messages reads exactly one
\* frame: every frame is read by an activation that has read none before.
C6_SingleRead == ReadStep => (Top.fn = "await_messages" /\ ~IsSome(Top.msg))

C6_ReturnStep ==
    /\ (Top.fn = "await_messages" /\ stack' # stack /\ status' # "panicked") =>
          /\ ReadStep
          /\ \/ /\ lastFrame'.to = "stored"
                /\ stack' = Pop(stack)
             \/ /\ lastFrame'.to = "callback"
                /\ Len(stack') = Len(stack) + 1
                /\ stack'[Len(stack)].fn = "await_messages"
                /\ stack'[Len(stack)].msg = lastFrame'.msg
    /\ (Top.fn = "handle_callback" /\ Len(stack') < Len(stack)) =>
          /\ stack' = Pop(stack)
          /\ stack'[Len(stack')].fn = "await_messages"
          /\ stack'[Len(stack')].pc = "callback"

C6_Recheck ==
    (status = "running" /\ Top.fn = "call" /\ Top.pc = "check") => lastFrame.to = "stored"

InRange(h) == Geq32(h, U32(32768, 0)) /\ ~Geq32(h, U32(65535, 65280))

\* h + 1 as a natural number, on the two words
Succ(h) == IF h[2] = 65535 THEN <<h[1] + 1, 0>> ELSE <<h[1], h[2] + 1>>

Wrapped(i) == issued[i][2] = U32(32768, 0)

C7_Allocator ==
    /\ InRange(handle)
    /\ InitHandle = U32(32768, 0)
    /\ \A i \in 1..Len(issued) :
          /\ InRange(issued[i][2])
          /\ IF issued[i][1] = U32(65535, 65279)
             THEN issued[i][2] = U32(32768, 0)
             ELSE issued[i][2] = Succ(issued[i][1])
          /\ issued[i][1] = U32(32768, 0) => issued[i][2] = U32(32768, 1)
          /\ i > 1 => issued[i][1] = issued[i - 1][2]
    /\ \A i, j \in 1..Len(issued) :
          (i < j /\ issued[i][2] = issued[j][2]) => \E k \in (i + 1)..j : Wrapped(k)

\* C7 witness: the allocator has returned 0xFFFFFEFF, wrapped to 0x80000000
\* and gone on to 0x80000001.
C7_Witness ==
    \E i \in 1..Len(issued) :
        /\ i + 2 <= Len(issued)
        /\ issued[i][2] = U32(65535, 65279)
        /\ issued[i + 1][2] = U32(32768, 0)
        /\ issued[i + 2][2] = U32(32768, 1)

\* C8: a stored fault makes the call return Err(fault), and nothing else
\* differs from a successful return: the call's own entry is removed, the
\* other entries and the counter are untouched, the process goes on.
C8_FaultStep ==
    ( /\ status = "running"
      /\ stack # <<>>
      /\ Top.fn = "call" /\ Top.pc = "check"
      /\ Top.handle \in DOMAIN msgs
      /\ msgs[Top.handle].kind = "fault"
      /\ vars' # vars )
    => /\ returns' = Append(returns, [handle |-> Top.handle, method |-> Top.site,
                                      payload |-> msgs[Top.handle], result |-> "Err"])
       /\ msgs' = [x \in DOMAIN msgs \ {Top.handle} |-> msgs[x]]
       /\ handle' = handle
       /\ status' = "running"
       /\ stack' = Pop(stack)
       /\ written' = written

C8_ErrOnlyOnFault ==
    \A i \in 1..Len(returns) :
        /\ returns[i].result = "Err" <=> returns[i].payload.kind = "fault"
        /\ returns[i].result = "Err" => returns[i].payload.id = returns[i].handle

\* C8: a fault is the Err result of the one call it answers and changes
\* nothing else.
C8_FaultLocal == [](C8_ErrOnlyOnFault) /\ [][C8_FaultStep]_vars

\* C8 witness: after a call returned Err, a call written later returned Ok.
C8_Witness ==
    \E i, j \in 1..Len(returns) :
        /\ i < j
        /\ returns[i].result = "Err"
        /\ returns[j].result = "Ok"
        /\ returns[j].handle # returns[i].handle
        /\ Geq32(returns[j].handle, returns[i].handle)
        /\ returns[j].payload.id = returns[j].handle

C9_FaultStep ==
    ( /\ status = "running"
      /\ stack # <<>>
      /\ Top.fn = "download_map" /\ Top.pc = "ret"
      /\ returns # <<>>
      /\ returns[Len(returns)].result = "Err"
      /\ vars' # vars )
    => IF Top.site = "InsertMap"
       THEN /\ status' = "running"
            /\ stack' = SubSeq(stack, 1, Len(stack) - 2)
            /\ stack'[Len(stack')].fn = "await_messages"
            /\ msgs' = msgs /\ handle' = handle /\ written' = written
       ELSE /\ status' = "panicked"
            /\ written' = written

HandshakeOrder == <<"SetApiVersion", "Authenticate", "EnableCallbacks">>

IsHandshake(w) == w.method \in {"SetApiVersion", "Authenticate", "EnableCallbacks"}

HandshakeWrites == SelectSeq(written, IsHandshake)

ReturnedTrue(w) ==
    \E i \in 1..Len(returns) :
        /\ returns[i].handle = w.handle
        /\ returns[i].method = w.method
        /\ returns[i].result = "Ok"
        /\ returns[i].payload.kind = "true"

NewReturned == Len(stack) >= 1 /\ stack[1].fn = "main" /\ stack[1].site # "new"

C10_Handshake ==
    /\ written # <<>> => hello = "GBXRemote 2"
    /\ (Top.fn = "new" /\ Top.pc = "hello") => written = <<>>
    /\ Len(HandshakeWrites) <= 3
    /\ \A k \in 1..Len(HandshakeWrites) :
          /\ HandshakeWrites[k].method = HandshakeOrder[k]
          /\ k > 1 => ReturnedTrue(HandshakeWrites[k - 1])
    /\ written # <<>> => written[1] = [handle |-> U32(32768, 1), method |-> "SetApiVersion"]
    /\ NewReturned =>
          /\ Len(HandshakeWrites) = 3
          /\ ReturnedTrue(HandshakeWrites[3])
    /\ (NewReturned /\ Len(stack) = 1 /\ Top.pc = "call") => msgs = EmptyMap

\* C10 witness: Client::new has returned after three frames, each the true
\* response of one handshake call, and main is about to call NextMap.
C10_Witness ==
    /\ status = "running"
    /\ stack = << Frame("main", "call", "NextMap", NoHandle, None) >>
    /\ nread = 3
    /\ Len(returns) = 3
    /\ msgs = EmptyMap
    /\ hello = "GBXRemote 2"

\* C11: if the greeting is not "GBXRemote 2", or a handshake call returns
\* false or a fault, Client::new aborts: the process has panicked or panics
\* in its next step, nothing more is written or read, no Client is returned
\* and NextMap is never issued.
BadGreeting == hello \notin {"", "GBXRemote 2"}

BadHandshakeReturn ==
    \E i \in 1..Len(returns) :
        /\ IsHandshake([method |-> returns[i].method])
        /\ returns[i].result = "Err" \/ returns[i].payload.kind # "true"

HandshakeFailed == BadGreeting \/ BadHandshakeReturn

C11_Aborted ==
    HandshakeFailed =>
        /\ status = "panicked" \/ (status = "running" /\ Top.fn = "new" /\ Top.pc = "ret")
        /\ stack[1].site = "new"
        /\ \A k \in 1..Len(written) : written[k].method # "NextMap"
        /\ BadGreeting => written = <<>> /\ nread = 0

C11_AbortStep ==
    (HandshakeFailed /\ vars' # vars) =>
        /\ status = "running" /\ status' = "panicked"
        /\ written' = written /\ nread' = nread /\ stack' = stack /\ msgs' = msgs

C11_HandshakeFailure == [](C11_Aborted) /\ [][C11_AbortStep]_vars

\* C11 witness: Authenticate returned false and Client::new has aborted.
C11_Witness ==
    /\ status = "panicked"
    /\ Len(returns) = 2
    /\ returns[2].method = "Authenticate"
    /\ returns[2].payload.kind = "false"
    /\ Top.fn = "new"

\* C12: once a read of the stream has failed, no frame is read or written
\* and no call returns: nothing changes any more.
C12_Dead == lastFrame.to = "failed" => status = "panicked"

C12_NoStepAfterFailure == lastFrame.to = "failed" => vars' = vars

C12_TransportFatal == [](C12_Dead) /\ [][C12_NoStepAfterFailure]_vars

\* C12 witness: a read failed while an outer and a nested call were waiting.
C12_Witness ==
    /\ lastFrame.to = "failed"
    /\ \E i, j \in 1..Len(stack) :
          /\ i < j
          /\ Waiting(i) /\ Waiting(j)
          /\ stack[i].handle # stack[j].handle
    /\ Top.fn = "await_messages"

\* C13 (as claimed): when a request frame is written, its handle is already
\* a key of the pending table.
C13_WriteRegistered ==
    written' # written => written'[Len(written')].handle \in DOMAIN msgs'

C13_RegisteredBeforeWrite == [][C13_WriteRegistered]_vars

\* C13 (amended): the request frame is written first, with the pending table
\* untouched; the call's next step inserts the handle with value None, and
\* no frame is read or written between the two.
C13_WriteStep ==
    written' # written =>
        /\ msgs' = msgs
        /\ nread' = nread
        /\ written' = Append(written, [handle |-> handle', method |-> Top.site])
        /\ stack'[Len(stack')] = Frame("call", "loop", Top.site, handle', None)

C13_RegisterStep ==
    (status = "running" /\ Top.fn = "call" /\ Top.pc = "loop" /\ vars' # vars) =>
        /\ DOMAIN msgs' = DOMAIN msgs \cup {Top.handle}
        /\ msgs'[Top.handle] = None
        /\ \A h \in DOMAIN msgs \ {Top.handle} : msgs'[h] = msgs[h]
        /\ nread' = nread /\ written' = written
        /\ stack'[Len(stack')].fn = "await_messages"

C13_WriteThenRegister == [][C13_WriteStep /\ C13_RegisterStep]_vars

\* C13 witness: the first request has been written and then registered, and
\* its pump is about to read the first frame.
C13_Witness ==
    /\ Len(written) = 1
    /\ nread = 0
    /\ Top.fn = "await_messages"
    /\ written[1].handle \in DOMAIN msgs
    /\ msgs[written[1].handle] = None

\* C14: registering a handle that is already a key of the pending table
\* fails as a logic error and leaves the table as it was; the existing entry
\* and a payload stored in it are never replaced.
C14_RegisterStep ==
    (/\ status = "running"
     /\ Top.fn = "call" /\ Top.pc = "loop"
     /\ Top.handle \in DOMAIN msgs
     /\ vars' # vars) =>
        /\ status' = "panicked"
        /\ msgs' = msgs

C14_DuplicateFails == [][C14_RegisterStep]_vars

\* C15: a frame whose id is no key of the table and whose payload is a call
\* of a method other than ManiaPlanet.BeginMap is ignored: reading it and
\* handling it write no frame, allocate no handle and leave the pending
\* table as it was, raise no error, and the pump goes on to its next read.
C15_OtherCallRead ==
    (ReadStep /\ lastFrame'.to = "callback" /\ lastFrame'.msg.kind = "OtherCall") =>
        /\ msgs' = msgs /\ handle' = handle /\ written' = written
        /\ status' = "running"
        /\ stack'[Len(stack')] = Frame("handle_callback", "decode", "",
                                       lastFrame'.id, lastFrame'.msg)

C15_OtherCallHandled ==
    (/\ status = "running"
     /\ Top.fn = "handle_callback" /\ Top.msg.kind = "OtherCall"
     /\ vars' # vars) =>
        /\ msgs' = msgs /\ handle' = handle /\ issued' = issued
        /\ written' = written /\ returns' = returns /\ nread' = nread
        /\ status' = "running"
        /\ stack' = Pop(stack)
        /\ stack'[Len(stack')].fn = "await_messages"

C15_PumpGoesOn ==
    (/\ status = "running"
     /\ Top.fn = "await_messages" /\ Top.pc = "callback"
     /\ vars' # vars) =>
        \/ ReadStep
        \/ status' = "panicked" /\ lastFrame'.to = "failed"

C15_OtherCallIgnored ==
    [][C15_OtherCallRead /\ C15_OtherCallHandled /\ C15_PumpGoesOn]_vars

\* C15 witness: main's pump has read the call of another method, passed it
\* to the handler and is back at its read, nothing written since NextMap.
C15_Witness ==
    /\ status = "running"
    /\ Len(stack) = 2
    /\ Top.fn = "await_messages" /\ Top.pc = "callback"
    /\ Top.msg.kind = "OtherCall"
    /\ lastFrame.msg = Top.msg /\ lastFrame.to = "callback"
    /\ msgs = EmptyMap
    /\ Len(written) = 4

\* C16: at every read the keys of the pending table are exactly the handles
\* of the calls in progress; a call has removed its own entry when it
\* returns; the table is empty when no call is in progress; and every key
\* lies in [0x80000000, 0xffffff00).
CallsInProgress == {stack[i].handle : i \in {j \in 1..Len(stack) : stack[j].fn = "call"}}

C16_KeysAtRead ==
    (status = "running" /\ Top.fn = "await_messages") =>
        DOMAIN msgs = CallsInProgress

C16_Idle == CallsInProgress = {} => msgs = EmptyMap

C16_KeysInRange == \A h \in DOMAIN msgs : InRange(h)

C16_OwnEntryRemoved ==
    JustReturned => returns'[Len(returns')].handle \notin DOMAIN msgs'

C16_StackDiscipline ==
    /\ [](C16_KeysAtRead /\ C16_Idle /\ C16_KeysInRange)
    /\ [][C16_OwnEntryRemoved]_vars

\* C17: no frame is read between a call's write and its registration; at
\* every read performed while a call is the innermost one waiting, its entry
\* is present with value None; hence a frame carrying the handle of a call
\* in progress is never routed to the callback handler.
InnermostCall == stack[Len(stack) - 1]

C17_ReadAfterRegistered ==
    ReadStep => \A i \in 1..Len(stack) :
                    stack[i].fn = "call" => stack[i].handle \in DOMAIN msgs

C17_NeverToCallback ==
    (ReadStep /\ lastFrame'.id \in CallsInProgress) => lastFrame'.to = "stored"

C17_EntryNoneAtRead ==
    (/\ status = "running"
     /\ Top.fn = "await_messages"
     /\ Len(stack) >= 2
     /\ InnermostCall.fn = "call") =>
        /\ InnermostCall.handle \in DOMAIN msgs
        /\ msgs[InnermostCall.handle] = None

C17_RegisteredNoneAtRead ==
    /\ [](C17_EntryNoneAtRead)
    /\ [][C17_ReadAfterRegistered /\ C17_NeverToCallback]_vars

\* C18: the await_messages that main enters last, with an empty table,
\* never returns whatever frames arrive: each frame its own loop reads is
\* handled as a notification, the nested calls of a handler leave the table
\* empty again, and the process ends only by a fatal failure.
InMainPump == stack[1].fn = "main" /\ stack[1].site = "await_messages"

AtMainPump == InMainPump /\ Len(stack) = 2

C18_StillPumping ==
    InMainPump =>
        /\ status # "done"
        /\ Len(stack) >= 2
        /\ stack[2].fn = "await_messages"

C18_TableEmpty == AtMainPump => msgs = EmptyMap

C18_MainPumpStep ==
    /\ (AtMainPump /\ ReadStep) => lastFrame'.to = "callback"
    /\ (InMainPump /\ status' # status) => status' = "panicked"
    /\ InMainPump => stack'[1] = stack[1]

C18_MainPumpNeverReturns ==
    /\ [](C18_StillPumping /\ C18_TableEmpty)
    /\ [][C18_MainPumpStep]_vars

\* C18 witness: main's pump has handled a ManiaPlanet.BeginMap notification
\* whose two nested calls returned, and is back at its read.
C18_Witness ==
    /\ AtMainPump
    /\ status = "running"
    /\ Top.pc = "callback" /\ Top.msg.kind = "BeginMap"
    /\ Len(returns) >= 2
    /\ returns[Len(returns)].method = "InsertMap"
    /\ returns[Len(returns) - 1].method = "GetMapsDirectory"
    /\ returns[Len(returns) - 1].payload.seq > Top.msg.seq

====
